---- MODULE Spec2Model ----
(***************************************************************************)
(* A model of the retail / loan REST backend of server.js over the schema *)
(* of db_init.sql.                                                         *)
(*                                                                         *)
(* The store is one SQLite database reached through better-sqlite3, whose  *)
(* calls are synchronous: a route handler runs to completion on Node's     *)
(* single thread, so concurrent requests are served one whole handler at   *)
(* a time, in any order.  One action below is one handler.                 *)
(*                                                                         *)
(* Every prepared statement runs in autocommit mode (the source opens no   *)
(* transaction), so a handler that runs two statements commits the first   *)
(* before the second starts.  run() throws when the store reports an       *)
(* error; the catch blocks of the three derived-write handlers cover the   *)
(* second statement as well as the first, and the input storeFails of      *)
(* those handlers is the store failing that second statement (database     *)
(* locked by another process, disk full, I/O error).                       *)
(*                                                                         *)
(* Text columns that a handler binds and coalesces in the same way are     *)
(* represented by one of them: email stands for the other optional        *)
(* columns of customers, address for those of suppliers; product category  *)
(* and the date columns are left out.  Amounts are integers.               *)
(***************************************************************************)
EXTENDS Integers, Sequences, FiniteSets, TLC

VARIABLES
    db,          \* the eight tables of retail.db: table name -> (key -> row)
    res,         \* the response to the last request: status and body
    acct,        \* history: per product, the stock at the start of the current
                 \* run of receipts and sales, and the acknowledged totals since
    propagated,  \* history: keys of stock, sales and payment rows whose
                 \* propagation UPDATE has run (seeded rows included)
    nops         \* number of requests served

vars == <<db, res, acct, propagated, nops>>

\* Requests served in one run of the model.
MaxOps == 2

NULL == "NULL"

(***************************************************************************)
(* Keys and request values.                                                *)
(***************************************************************************)
CustIds     == {"C001", "C002", "C003"}
SupplierIds == {"S001", "S002"}
ProductIds  == {"P001", "P002", "P003"}
StockIds    == {"ST001", "ST002"}
InvoiceIds  == {"I001", "I002"}
SalesIds    == {"SA001", "SA002"}
LoanIds     == {"L001", "L002"}
PayIds      == {"P001", "P002"}

\* A required name as sent: "" fails notEmpty().
NameVals    == {"", "Test User"}
\* An optional text field: NULL is a field the request omits (undefined is
\* bound as NULL).
EmailVals   == {NULL, "test@example.com", "not-an-email"}
AddressVals == {NULL, "5 Mill Rd"}
ModeVals    == {NULL, "Card"}
\* Fields of an update: NULL and <<>> are fields the request omits.
PutNameVals == {NULL, "Renamed"}
PutEmailVals == {NULL, "new@example.com", "not-an-email"}
PutQtyVals  == {<<>>, <<0>>, <<6>>}
\* An optional number: <<>> is a field the request omits, <<n>> the number n.
PriceVals   == {<<>>, <<99>>}
QtyVals     == {<<>>, <<4>>}
RateVals    == {<<>>, <<12>>}
BalanceVals == {<<>>, <<0>>, <<400>>}
\* Required numbers: 0 fails isInt({min: 1}).
ReceiptQtys == {0, 3}
SaleQtys    == {0, 3, 25}
PaidVals    == {500, 9000}
LoanAmounts == {1000}
TotalAmts   == {500}
PriceTotals == {750}

(***************************************************************************)
(* Schema: the FOREIGN KEY clauses of db_init.sql.                         *)
(***************************************************************************)
Refs ==
    { [child |-> "products", col |-> "supplier_id", parent |-> "suppliers"],
      [child |-> "stock",    col |-> "supplier_id", parent |-> "suppliers"],
      [child |-> "stock",    col |-> "product_id",  parent |-> "products"],
      [child |-> "sales",    col |-> "product_id",  parent |-> "products"],
      [child |-> "sales",    col |-> "invoice_id",  parent |-> "invoices"],
      [child |-> "invoices", col |-> "cust_id",     parent |-> "customers"],
      [child |-> "loans",    col |-> "cust_id",     parent |-> "customers"],
      [child |-> "payments", col |-> "loan_id",     parent |-> "loans"] }

UniqueMsg   == "UNIQUE constraint failed"
FkMsg       == "FOREIGN KEY constraint failed"
StoreMsg    == "database is locked"
InternalMsg == "Internal server error"

(***************************************************************************)
(* The store: statements as functions from a database to a result.         *)
(***************************************************************************)
Done(d, n) == [ok |-> TRUE,  db |-> d, msg |-> "", changes |-> n]
Fail(d, m) == [ok |-> FALSE, db |-> d, msg |-> m,  changes |-> 0]

\* A store that does not enforce foreign keys (PRAGMA foreign_keys = OFF).
ParentExistsUnchecked(d, parent, key) == TRUE

\* The bundled SQLite of better-sqlite3 enforces foreign keys on every
\* connection: a non-NULL child key must name a row of the parent table.
ParentExists(d, parent, key) == key = NULL \/ key \in DOMAIN d[parent]

\* Some row of a child table references key of table parent.
Referenced(d, parent, key) ==
    \E r \in Refs :
        /\ r.parent = parent
        /\ \E id \in DOMAIN d[r.child] : d[r.child][id][r.col] = key

\* INSERT INTO tbl ... VALUES (...): the primary key is checked as the row is
\* written, the foreign keys when the statement ends.
Insert(d, tbl, id, row) ==
    IF id \in DOMAIN d[tbl] THEN Fail(d, UniqueMsg)
    ELSE IF \E r \in Refs : r.child = tbl /\ ~ParentExists(d, r.parent, row[r.col])
         THEN Fail(d, FkMsg)
         ELSE Done([d EXCEPT ![tbl] = @ @@ (id :> row)], 1)

\* DELETE FROM tbl WHERE key = id
Delete(d, tbl, id) ==
    IF id \notin DOMAIN d[tbl] THEN Done(d, 0)
    ELSE IF Referenced(d, tbl, id) THEN Fail(d, FkMsg)
         ELSE Done([d EXCEPT ![tbl] = [k \in DOMAIN @ \ {id} |-> @[k]]], 1)

\* SET column = ?  in place of  SET column = COALESCE(?, column).
CoalesceOverwrite(new, old) == new

\* COALESCE(?, column) for a text parameter and for a numeric one.
Coalesce(new, old) == IF new = NULL THEN old ELSE new
CoalesceNum(opt, old) == IF opt = <<>> THEN old ELSE opt[1]

\* JavaScript's  x || dflt  on an optional number: undefined and 0 are falsy.
OrDefault(opt, dflt) == IF opt = <<>> \/ opt[1] = 0 THEN dflt ELSE opt[1]
\* JavaScript's  x || dflt  on an optional string.
OrText(s, dflt) == IF s = NULL \/ s = "" THEN dflt ELSE s

\* isEmail() on the strings the model sends.
IsEmail(s) == s \in {"test@example.com", "new@example.com", "asha@example.com",
                    "ravi@example.com"}

Respond(st, body) == [status |-> st, body |-> body]

(***************************************************************************)
(* The database after the schema is created and the seed has run.          *)
(***************************************************************************)
SeedDb ==
    [ customers |->
        ("C001" :> [cust_name |-> "Asha Kumar", email |-> "asha@example.com"]) @@
        ("C002" :> [cust_name |-> "Ravi Singh", email |-> "ravi@example.com"]),
      suppliers |->
        ("S001" :> [supplier_name |-> "Radha Supplies",
                    address |-> "12 Market Rd, Jaipur"]),
      products |->
        ("P001" :> [product_name |-> "Widget A", price |-> 250,
                    quantity_stock |-> 20, supplier_id |-> "S001"]) @@
        ("P002" :> [product_name |-> "Gadget B", price |-> 450,
                    quantity_stock |-> 10, supplier_id |-> "S001"]),
      stock |->
        ("ST001" :> [supplier_id |-> "S001", product_id |-> "P001",
                     quantity |-> 20]),
      invoices |->
        ("I001" :> [cust_id |-> "C001", total_amt |-> 500]),
      sales |->
        ("SA001" :> [product_id |-> "P001", invoice_id |-> "I001",
                     quantity_sold |-> 2, price_total |-> 500]),
      loans |->
        ("L001" :> [cust_id |-> "C002", loan_amount |-> 10000,
                    interest_rate |-> 10, balance |-> 8000]),
      payments |->
        ("P001" :> [loan_id |-> "L001", amount_paid |-> 2000,
                    payment_mode |-> "Cash"]) ]

\* The rows of a table, as <<table, key>> pairs.
Rows(d, tbl) == {<<tbl, id>> : id \in DOMAIN d[tbl]}

NewAcct(q) == [initial |-> q, received |-> 0, sold |-> 0]

Init ==
    /\ db = SeedDb
    /\ res = Respond(0, "")
    /\ acct = [p \in DOMAIN SeedDb.products |-> NewAcct(SeedDb.products[p].quantity_stock)]
    /\ propagated = Rows(SeedDb, "stock") \cup Rows(SeedDb, "sales") \cup Rows(SeedDb, "payments")
    /\ nops = 0

\* Every handler serves one request.
Serve == nops < MaxOps /\ nops' = nops + 1

(***************************************************************************)
(* Customers                                                               *)
(***************************************************************************)
\* POST /api/customers
PostCustomer(id, name, email) ==
    /\ Serve
    /\ IF name = "" \/ (email # NULL /\ ~IsEmail(email))
       THEN /\ res' = Respond(400, "errors")
            /\ UNCHANGED <<db, acct, propagated>>
       ELSE LET r == Insert(db, "customers", id,
                            [cust_name |-> name, email |-> email])
            IN  /\ db' = r.db
                /\ res' = IF r.ok THEN Respond(201, "Customer created")
                                  ELSE Respond(400, r.msg)
                /\ UNCHANGED <<acct, propagated>>

\* PUT /api/customers/:id
PutCustomer(id, name, email) ==
    /\ Serve
    /\ UNCHANGED <<acct, propagated>>
    /\ IF email # NULL /\ ~IsEmail(email)
       THEN /\ res' = Respond(400, "errors")
            /\ UNCHANGED db
       ELSE IF id \notin DOMAIN db.customers
       THEN /\ res' = Respond(404, "Not found")
            /\ UNCHANGED db
       ELSE /\ db' = [db EXCEPT !.customers[id] =
                        [cust_name |-> Coalesce(name, @.cust_name),
                         email     |-> Coalesce(email, @.email)]]
            /\ res' = Respond(200, "Updated")

\* DELETE /api/customers/:id: run() is not inside a try block, so a store
\* error reaches the error-handling middleware.
DeleteCustomer(id) ==
    /\ Serve
    /\ UNCHANGED <<acct, propagated>>
    /\ LET r == Delete(db, "customers", id)
       IN  /\ db' = r.db
           /\ res' = IF ~r.ok THEN Respond(500, InternalMsg)
                      ELSE IF r.changes = 0 THEN Respond(404, "Not found")
                      ELSE Respond(200, "Deleted")

(***************************************************************************)
(* Suppliers                                                               *)
(***************************************************************************)
\* POST /api/suppliers
PostSupplier(id, name, address) ==
    /\ Serve
    /\ UNCHANGED <<acct, propagated>>
    /\ IF name = ""
       THEN /\ res' = Respond(400, "errors")
            /\ UNCHANGED db
       ELSE LET r == Insert(db, "suppliers", id,
                            [supplier_name |-> name, address |-> address])
            IN  /\ db' = r.db
                /\ res' = IF r.ok THEN Respond(201, "Created")
                                  ELSE Respond(400, r.msg)

\* PUT /api/suppliers/:id
PutSupplier(id, name, address) ==
    /\ Serve
    /\ UNCHANGED <<acct, propagated>>
    /\ IF id \notin DOMAIN db.suppliers
       THEN /\ res' = Respond(404, "Not found")
            /\ UNCHANGED db
       ELSE /\ db' = [db EXCEPT !.suppliers[id] =
                        [supplier_name |-> Coalesce(name, @.supplier_name),
                         address       |-> Coalesce(address, @.address)]]
            /\ res' = Respond(200, "Updated")

\* DELETE /api/suppliers/:id
DeleteSupplier(id) ==
    /\ Serve
    /\ UNCHANGED <<acct, propagated>>
    /\ LET r == Delete(db, "suppliers", id)
       IN  /\ db' = r.db
           /\ res' = IF ~r.ok THEN Respond(500, InternalMsg)
                      ELSE IF r.changes = 0 THEN Respond(404, "Not found")
                      ELSE Respond(200, "Deleted")

(***************************************************************************)
(* Products                                                                *)
(***************************************************************************)
\* POST /api/products
PostProduct(id, name, price, qty, supplier) ==
    /\ Serve
    /\ UNCHANGED propagated
    /\ IF name = ""
       THEN /\ res' = Respond(400, "errors")
            /\ UNCHANGED <<db, acct>>
       ELSE LET r == Insert(db, "products", id,
                            [product_name   |-> name,
                             price          |-> OrDefault(price, 0),
                             quantity_stock |-> OrDefault(qty, 0),
                             supplier_id    |-> supplier])
            IN  /\ db' = r.db
                /\ res' = IF r.ok THEN Respond(201, "Created")
                                  ELSE Respond(400, r.msg)
                /\ acct' = IF r.ok THEN acct @@ (id :> NewAcct(OrDefault(qty, 0)))
                                   ELSE acct

\* PUT /api/products/:id: the UPDATE is not inside a try block.
PutProduct(id, name, price, qty, supplier) ==
    /\ Serve
    /\ UNCHANGED propagated
    /\ IF id \notin DOMAIN db.products
       THEN /\ res' = Respond(404, "Not found")
            /\ UNCHANGED <<db, acct>>
       ELSE LET old == db.products[id]
                new == [product_name   |-> Coalesce(name, old.product_name),
                        price          |-> CoalesceNum(price, old.price),
                        quantity_stock |-> CoalesceNum(qty, old.quantity_stock),
                        supplier_id    |-> Coalesce(supplier, old.supplier_id)]
            IN  IF ~ParentExists(db, "suppliers", new.supplier_id)
                THEN /\ res' = Respond(500, InternalMsg)
                     /\ UNCHANGED <<db, acct>>
                ELSE /\ db' = [db EXCEPT !.products[id] = new]
                     /\ res' = Respond(200, "Updated")
                     /\ acct' = IF qty = <<>> THEN acct
                                ELSE [acct EXCEPT ![id] = NewAcct(new.quantity_stock)]

\* DELETE /api/products/:id
DeleteProduct(id) ==
    /\ Serve
    /\ UNCHANGED propagated
    /\ LET r == Delete(db, "products", id)
       IN  /\ db' = r.db
           /\ acct' = [p \in DOMAIN r.db.products \cap DOMAIN acct |-> acct[p]]
           /\ res' = IF ~r.ok THEN Respond(500, InternalMsg)
                      ELSE IF r.changes = 0 THEN Respond(404, "Not found")
                      ELSE Respond(200, "Deleted")

(***************************************************************************)
(* The propagation statements.  Each is one UPDATE that computes the new   *)
(* value from the stored one; WHERE matches no row when the key is absent. *)
(***************************************************************************)
\* SET quantity_stock = ?  in place of the increment.
AddStockOverwrite(d, pid, q) ==
    IF pid \in DOMAIN d.products
    THEN [d EXCEPT !.products[pid].quantity_stock = q] ELSE d

\* UPDATE products SET quantity_stock = quantity_stock + ? WHERE product_id = ?
AddStock(d, pid, q) ==
    IF pid \in DOMAIN d.products
    THEN [d EXCEPT !.products[pid].quantity_stock = @ + q] ELSE d

\* A decrement clamped at zero: MAX(quantity_stock - ?, 0).
SubStockClamped(d, pid, q) ==
    IF pid \in DOMAIN d.products
    THEN [d EXCEPT !.products[pid].quantity_stock = IF @ < q THEN 0 ELSE @ - q]
    ELSE d

\* UPDATE products SET quantity_stock = quantity_stock - ? WHERE product_id = ?
SubStock(d, pid, q) ==
    IF pid \in DOMAIN d.products
    THEN [d EXCEPT !.products[pid].quantity_stock = @ - q] ELSE d

\* A read-modify-write that writes back a balance computed from a value read
\* earlier (the seeded one) instead of the stored one.
SubBalanceStale(d, lid, amt) ==
    IF lid \in DOMAIN d.loans
    THEN [d EXCEPT !.loans[lid].balance = SeedDb.loans["L001"].balance - amt]
    ELSE d

\* UPDATE loans SET balance = balance - ? WHERE loan_id = ?
SubBalance(d, lid, amt) ==
    IF lid \in DOMAIN d.loans
    THEN [d EXCEPT !.loans[lid].balance = @ - amt] ELSE d

(***************************************************************************)
(* Stock, invoices, sales                                                  *)
(***************************************************************************)
\* POST /api/stock
PostStock(id, supplier, product, qty, storeFails) ==
    /\ Serve
    /\ IF qty < 1
       THEN /\ res' = Respond(400, "errors")
            /\ UNCHANGED <<db, acct, propagated>>
       ELSE LET r == Insert(db, "stock", id,
                            [supplier_id |-> supplier, product_id |-> product,
                             quantity |-> qty])
            IN  IF ~r.ok
                THEN /\ res' = Respond(400, r.msg)
                     /\ UNCHANGED <<db, acct, propagated>>
                ELSE IF storeFails
                THEN /\ db' = r.db
                     /\ res' = Respond(400, StoreMsg)
                     /\ UNCHANGED <<acct, propagated>>
                ELSE /\ db' = AddStock(r.db, product, qty)
                     /\ res' = Respond(201, "Stock added")
                     /\ acct' = IF product \in DOMAIN acct
                                THEN [acct EXCEPT ![product].received = @ + qty]
                                ELSE acct
                     /\ propagated' = propagated \cup {<<"stock", id>>}

\* POST /api/invoices
PostInvoice(id, cust, total) ==
    /\ Serve
    /\ UNCHANGED <<acct, propagated>>
    /\ LET r == Insert(db, "invoices", id, [cust_id |-> cust, total_amt |-> total])
       IN  /\ db' = r.db
           /\ res' = IF r.ok THEN Respond(201, "Invoice created")
                             ELSE Respond(400, r.msg)

\* POST /api/sales
PostSale(id, product, invoice, qty, total, storeFails) ==
    /\ Serve
    /\ IF qty < 1
       THEN /\ res' = Respond(400, "errors")
            /\ UNCHANGED <<db, acct, propagated>>
       ELSE LET r == Insert(db, "sales", id,
                            [product_id |-> product,
                             invoice_id |-> OrText(invoice, NULL),
                             quantity_sold |-> qty, price_total |-> total])
            IN  IF ~r.ok
                THEN /\ res' = Respond(400, r.msg)
                     /\ UNCHANGED <<db, acct, propagated>>
                ELSE IF storeFails
                THEN /\ db' = r.db
                     /\ res' = Respond(400, StoreMsg)
                     /\ UNCHANGED <<acct, propagated>>
                ELSE /\ db' = SubStock(r.db, product, qty)
                     /\ res' = Respond(201, "Sale recorded")
                     /\ acct' = IF product \in DOMAIN acct
                                THEN [acct EXCEPT ![product].sold = @ + qty]
                                ELSE acct
                     /\ propagated' = propagated \cup {<<"sales", id>>}

(***************************************************************************)
(* Loans and payments                                                      *)
(***************************************************************************)
\* POST /api/loans
PostLoan(id, cust, amount, rate, balance) ==
    /\ Serve
    /\ UNCHANGED <<acct, propagated>>
    /\ LET r == Insert(db, "loans", id,
                       [cust_id |-> cust, loan_amount |-> amount,
                        interest_rate |-> OrDefault(rate, 0),
                        balance |-> OrDefault(balance, amount)])
       IN  /\ db' = r.db
           /\ res' = IF r.ok THEN Respond(201, "Loan recorded")
                             ELSE Respond(400, r.msg)

\* POST /api/payments
PostPayment(id, loan, paid, mode, storeFails) ==
    /\ Serve
    /\ UNCHANGED acct
    /\ LET r == Insert(db, "payments", id,
                       [loan_id |-> loan, amount_paid |-> paid,
                        payment_mode |-> OrText(mode, "Cash")])
       IN  IF ~r.ok
           THEN /\ res' = Respond(400, r.msg)
                /\ UNCHANGED <<db, propagated>>
           ELSE IF storeFails
           THEN /\ db' = r.db
                /\ res' = Respond(400, StoreMsg)
                /\ UNCHANGED propagated
           ELSE /\ db' = SubBalance(r.db, loan, paid)
                /\ res' = Respond(201, "Payment recorded")
                /\ propagated' = propagated \cup {<<"payments", id>>}

(***************************************************************************)
(* The server: any request, at any time.                                   *)
(***************************************************************************)
Next ==
    \/ \E id \in CustIds, name \in NameVals, email \in EmailVals :
          PostCustomer(id, name, email)
    \/ \E id \in CustIds, name \in PutNameVals, email \in PutEmailVals :
          PutCustomer(id, name, email)
    \/ \E id \in CustIds : DeleteCustomer(id)
    \/ \E id \in SupplierIds, name \in NameVals, address \in AddressVals :
          PostSupplier(id, name, address)
    \/ \E id \in SupplierIds, name \in PutNameVals, address \in AddressVals :
          PutSupplier(id, name, address)
    \/ \E id \in SupplierIds : DeleteSupplier(id)
    \/ \E id \in ProductIds, name \in NameVals, price \in PriceVals, qty \in QtyVals,
          supplier \in SupplierIds \cup {NULL} :
          PostProduct(id, name, price, qty, supplier)
    \/ \E id \in ProductIds, name \in PutNameVals, price \in PriceVals, qty \in PutQtyVals,
          supplier \in SupplierIds \cup {NULL} :
          PutProduct(id, name, price, qty, supplier)
    \/ \E id \in ProductIds : DeleteProduct(id)
    \/ \E id \in StockIds, supplier \in SupplierIds \cup {NULL}, product \in ProductIds,
          qty \in ReceiptQtys, storeFails \in BOOLEAN :
          PostStock(id, supplier, product, qty, storeFails)
    \/ \E id \in InvoiceIds, cust \in CustIds, total \in TotalAmts :
          PostInvoice(id, cust, total)
    \/ \E id \in SalesIds, product \in ProductIds, invoice \in InvoiceIds \cup {NULL},
          qty \in SaleQtys, total \in PriceTotals, storeFails \in BOOLEAN :
          PostSale(id, product, invoice, qty, total, storeFails)
    \/ \E id \in LoanIds, cust \in CustIds, amount \in LoanAmounts, rate \in RateVals,
          balance \in BalanceVals :
          PostLoan(id, cust, amount, rate, balance)
    \/ \E id \in PayIds, loan \in LoanIds, paid \in PaidVals, mode \in ModeVals,
          storeFails \in BOOLEAN :
          PostPayment(id, loan, paid, mode, storeFails)

Spec == Init /\ [][Next]_vars

(***************************************************************************)
(* Properties                                                              *)
(***************************************************************************)
Products == DOMAIN db.products
Loans    == DOMAIN db.loans

\* The payments recorded for a loan, and the sum of their amount_paid.
PaymentsOf(l) == {k \in DOMAIN db.payments : db.payments[k].loan_id = l}

RECURSIVE SumPaid(_)
SumPaid(ks) ==
    IF ks = {} THEN 0
    ELSE LET k == CHOOSE x \in ks : TRUE
         IN  db.payments[k].amount_paid + SumPaid(ks \ {k})

NewRows(tbl) == DOMAIN db'[tbl] \ DOMAIN db[tbl]

LoanBalanceIsAmountMinusPayments ==
    \A l \in Loans :
        db.loans[l].balance = db.loans[l].loan_amount - SumPaid(PaymentsOf(l))

\* C3: a stock receipt, a sale and a loan payment are all-or-nothing: either
\* the request is acknowledged and both the row and the adjustment persist,
\* or the store is exactly as it was before the request.
DerivedWriteAllOrNothing ==
    [][ /\ \A id \in StockIds, supplier \in SupplierIds \cup {NULL},
              product \in ProductIds, qty \in ReceiptQtys, storeFails \in BOOLEAN :
              PostStock(id, supplier, product, qty, storeFails) =>
                \/ db' = db
                \/ /\ res'.status = 201
                   /\ id \in NewRows("stock")
                   /\ db'.products[product].quantity_stock
                        = db.products[product].quantity_stock + qty
        /\ \A id \in SalesIds, product \in ProductIds, invoice \in InvoiceIds \cup {NULL},
              qty \in SaleQtys, total \in PriceTotals, storeFails \in BOOLEAN :
              PostSale(id, product, invoice, qty, total, storeFails) =>
                \/ db' = db
                \/ /\ res'.status = 201
                   /\ id \in NewRows("sales")
                   /\ db'.products[product].quantity_stock
                        = db.products[product].quantity_stock - qty
        /\ \A id \in PayIds, loan \in LoanIds, paid \in PaidVals, mode \in ModeVals,
              storeFails \in BOOLEAN :
              PostPayment(id, loan, paid, mode, storeFails) =>
                \/ db' = db
                \/ /\ res'.status = 201
                   /\ id \in NewRows("payments")
                   /\ db'.loans[loan].balance = db.loans[loan].balance - paid
      ]_vars

\* C4: no state that a reader can observe holds a stock entry, a sale or a
\* payment whose quantity_stock / balance adjustment has not been applied.
NoRowWithoutAdjustment ==
    Rows(db, "stock") \cup Rows(db, "sales") \cup Rows(db, "payments") \subseteq propagated

\* C5: deleting a customer, supplier or product that a dependent row still
\* references is answered with a 4xx response carrying the store's integrity
\* message, and leaves the store unchanged.
ReferencedDeleteIs4xx ==
    [][ LET Refused == /\ res'.status \in 400..499
                       /\ res'.body = FkMsg
                       /\ db' = db
        IN  /\ \A id \in CustIds :
                 (Referenced(db, "customers", id) /\ DeleteCustomer(id)) => Refused
            /\ \A id \in SupplierIds :
                 (Referenced(db, "suppliers", id) /\ DeleteSupplier(id)) => Refused
            /\ \A id \in ProductIds :
                 (Referenced(db, "products", id) /\ DeleteProduct(id)) => Refused
      ]_vars

\* C6: an update of a customer, supplier or product leaves every field the
\* request omits as it was and stores no null over a value; an update of an
\* id that does not exist changes nothing and answers not-found (a request
\* that fails validation is answered 400 before the id is looked up).
Kept(new, before, after) == (new = NULL => after = before) /\ (before # NULL => after # NULL)

NoDanglingReference ==
    \A r \in Refs :
        \A id \in DOMAIN db[r.child] :
            \/ db[r.child][id][r.col] = NULL
            \/ db[r.child][id][r.col] \in DOMAIN db[r.parent]

\* C7: in every reachable state every non-null foreign key names an existing
\* row, and a write that the store refuses for a foreign key (an insert or
\* update naming an absent row, a delete of a referenced row) leaves the
\* store unchanged.
ReferentialIntegrity ==
    /\ []NoDanglingReference
    /\ [][(res'.body = FkMsg \/ res'.status = 500) => db' = db]_vars

\* Customer C003 has been created, and then a write naming an absent row has
\* been refused for its foreign key.
ReferentialIntegrityWitness ==
    /\ res = Respond(400, FkMsg)
    /\ "C003" \in DOMAIN db.customers
    /\ db = [SeedDb EXCEPT !.customers = db.customers]

\* C8: after a valid create the row is stored with each field equal to the
\* value sent, omitted optional fields being absent (null) or zero.
Sent(opt) == IF opt = <<>> THEN 0 ELSE opt[1]

CreateRoundTrip ==
    [][ /\ \A id \in CustIds, name \in NameVals, email \in EmailVals :
              (PostCustomer(id, name, email) /\ res'.status = 201) =>
                /\ id \in DOMAIN db'.customers
                /\ db'.customers[id]
                     = [cust_name |-> name, email |-> email]
        /\ \A id \in ProductIds, name \in NameVals, price \in PriceVals, qty \in QtyVals,
              supplier \in SupplierIds \cup {NULL} :
              (PostProduct(id, name, price, qty, supplier) /\ res'.status = 201) =>
                /\ id \in DOMAIN db'.products
                /\ db'.products[id]
                     = [product_name |-> name, price |-> Sent(price),
                        quantity_stock |-> Sent(qty), supplier_id |-> supplier]
        /\ \A id \in LoanIds, cust \in CustIds, amount \in LoanAmounts, rate \in RateVals,
              balance \in BalanceVals :
              (PostLoan(id, cust, amount, rate, balance) /\ res'.status = 201) =>
                /\ id \in DOMAIN db'.loans
                /\ db'.loans[id]
                     = [cust_id |-> cust, loan_amount |-> amount,
                        interest_rate |-> Sent(rate), balance |-> Sent(balance)]
      ]_vars

NoLowerBound ==
    /\ \A id \in SalesIds \ DOMAIN db.sales, product \in Products,
          invoice \in (InvoiceIds \cap DOMAIN db.invoices) \cup {NULL},
          qty \in SaleQtys, total \in PriceTotals :
          (qty >= 1 /\ qty > db.products[product].quantity_stock) =>
            ~ ENABLED ( /\ PostSale(id, product, invoice, qty, total, FALSE)
                        /\ ~ ( /\ res'.status = 201
                               /\ db'.products[product].quantity_stock
                                    = db.products[product].quantity_stock - qty
                               /\ db'.products[product].quantity_stock < 0 ) )
    /\ \A id \in PayIds \ DOMAIN db.payments, loan \in Loans, paid \in PaidVals,
          mode \in ModeVals :
          paid > db.loans[loan].balance =>
            ~ ENABLED ( /\ PostPayment(id, loan, paid, mode, FALSE)
                        /\ ~ ( /\ res'.status = 201
                               /\ db'.loans[loan].balance = db.loans[loan].balance - paid
                               /\ db'.loans[loan].balance < 0 ) )

\* A product with negative stock and a loan with negative balance.
NoLowerBoundWitness ==
    /\ \E p \in Products : db.products[p].quantity_stock < 0
    /\ \E l \in Loans : db.loans[l].balance < 0

====
